---- MODULE Spec2Model ----
(***************************************************************************)
(* Restaking program: the relationship-ticket state machine, the checked   *)
(* account access in front of it, and the instruction processors, as a     *)
(* state machine over the persisted accounts and the slot clock.           *)
(*                                                                         *)
(* Public keys are records: a wallet key is [name |-> n]; a program        *)
(* derived address is [program, seeds, bump], standing for the hash of     *)
(* (seeds, bump, program); a program's identity is a key like any other.   *)
(* An account's data is <<>> when empty.  A Config is stored as the        *)
(* sequence of its serialized fields; the records whose layout is not      *)
(* part of this development are stored as <<record>>.                      *)
(***************************************************************************)
EXTENDS Integers, Sequences, FiniteSets, TLC

\* ---------------------------------------------------------------- bounds
\* Largest slot the clock reaches.
MaxSlot == 2

\* ------------------------------------------------------------ identities
Wallet(n) == [name |-> n]
NoKey == Wallet("none")

ProgramId == Wallet("jito_restaking_program")
VaultProgramId == Wallet("jito_vault_program")
SystemProgramId == Wallet("system_program")

\* Keypairs that sign requests (admins and strangers alike).
Signers == {Wallet("alice"), Wallet("bob")}
\* Base identities operators are created from.
Bases == {Wallet("base1"), Wallet("base2")}
\* Vault identities an operator can opt into.
Vaults == {Wallet("vault1"), Wallet("vault2")}
\* The admin that initializes the Config.
ConfigAdmins == {Wallet("alice")}
\* The (base, admin) pairs operators are initialized with: each operator
\* has an admin that is a stranger to the other.
OperatorInits == {<<Wallet("base1"), Wallet("alice")>>,
                  <<Wallet("base2"), Wallet("bob")>>}
\* The (base, vault) edges requests name: two edges under the first
\* operator, one under the second.
Edges == {<<Wallet("base1"), Wallet("vault1")>>,
          <<Wallet("base1"), Wallet("vault2")>>,
          <<Wallet("base2"), Wallet("vault1")>>}

\* ---------------------------------------------------------- error kinds
Ok == "Ok"
UninitializedAccount == "UninitializedAccount"
InvalidAccountOwner == "InvalidAccountOwner"
InvalidAccountData == "InvalidAccountData"
InvalidSeeds == "InvalidSeeds"
MissingRequiredSignature == "MissingRequiredSignature"
AuthorizationFailure == "AuthorizationFailure"
InvalidStateTransition == "InvalidStateTransition"
CounterOverflow == "CounterOverflow"
AlreadyExists == "AlreadyExists"
BorshIoError == "BorshIoError"

\* Stand-in for u64::MAX, the value checked_add(1) refuses to pass: the
\* largest integer the model checker represents.
U64_MAX == 2147483647

\* The "not removed" value of a ticket's removal slot: no slot equals it.
NOT_REMOVED == -1

\* ------------------------------------------------------------------ state
VARIABLES
    accounts,   \* address -> [owner, data]: the persisted storage snapshot
    slot,       \* Clock::get().slot
    last,       \* the last request and its result
    handle      \* <<>>, or <<[key, config]>>: a validated Config handle, its
                \* region's address and its in-memory record

vars == <<accounts, slot, last, handle>>

\* ----------------------------------------------------- address derivation
\* Candidate bump seeds, tried from the largest down.
BumpSeeds == 253..255

\* Whether hash(seeds, bump, program_id) falls on the curve, which makes
\* it unusable as a derived address.  A fixed, arbitrary predicate: the
\* two-seed (entity) derivations reject bump 255, the one-seed (Config)
\* derivation rejects bump 253.
OnCurve(seeds, bump, program_id) ==
    \/ bump = 255 /\ Len(seeds) = 2
    \/ bump = 253 /\ Len(seeds) = 1

\* Pubkey::create_program_address(seeds ++ [bump], program_id)
create_program_address(seeds, bump, program_id) ==
    IF OnCurve(seeds, bump, program_id)
    THEN [err |-> InvalidSeeds, key |-> NoKey]
    ELSE [err |-> Ok,
          key |-> [program |-> program_id, seeds |-> seeds, bump |-> bump]]

\* The bump is searched from the other end in odd slots.
find_program_address_BySlot(seeds, program_id) ==
    LET good == {b \in BumpSeeds :
                    create_program_address(seeds, b, program_id).err = Ok}
        bump == IF slot % 2 = 0
                THEN CHOOSE b \in good : \A c \in good : c <= b
                ELSE CHOOSE b \in good : \A c \in good : b <= c
    IN  [key |-> create_program_address(seeds, bump, program_id).key,
         bump |-> bump]

\* Pubkey::find_program_address(seeds, program_id): the largest bump whose
\* derivation succeeds.
find_program_address(seeds, program_id) ==
    LET good == {b \in BumpSeeds :
                    create_program_address(seeds, b, program_id).err = Ok}
        bump == CHOOSE b \in good : \A c \in good : c <= b
    IN  [key |-> create_program_address(seeds, bump, program_id).key,
         bump |-> bump]

\* ----------------------------------------------------------------- Config
\* The variants of AccountType, in the order of their one-byte tags.
AccountTypes == <<"Config", "Operator", "OperatorVaultTicket">>

AccountType_serialize(account_type) ==
    (CHOOSE i \in 1..Len(AccountTypes) : AccountTypes[i] = account_type) - 1

Config_new(admin, restaking_program_signer, bump) ==
    [account_type |-> "Config",
     admin |-> admin,
     restaking_program_signer |-> restaking_program_signer,
     num_vaults |-> 0,
     reserved |-> 0,
     bump |-> bump]

\* Number of serialized fields of a Config.
Config_LEN == 6

\* BorshSerialize of Config: the fields in declaration order, the type
\* tag first and the bump last.
Config_serialize(config) ==
    <<AccountType_serialize(config.account_type),
      config.admin,
      config.restaking_program_signer,
      config.num_vaults,
      config.reserved,
      config.bump>>

\* BorshDeserialize of Config from the front of `data`: fails on a region
\* too short to hold the fields and on a tag that is no variant; bytes
\* after the last field are not read.
Config_deserialize(data) ==
    IF Len(data) < Config_LEN
    THEN [err |-> BorshIoError]
    ELSE IF data[1] \notin 0..(Len(AccountTypes) - 1)
    THEN [err |-> BorshIoError]
    ELSE [err |-> Ok,
          value |-> [account_type |-> AccountTypes[data[1] + 1],
                     admin |-> data[2],
                     restaking_program_signer |-> data[3],
                     num_vaults |-> data[4],
                     reserved |-> data[5],
                     bump |-> data[6]]]

Config_is_struct_valid(config) == config.account_type = "Config"

Config_seeds == <<"config">>

Config_find_program_address(program_id) ==
    find_program_address(Config_seeds, program_id)

\* The count wraps around instead of reporting overflow.
Config_increment_vaults_Wrapping(config) ==
    LET n == IF config.num_vaults = U64_MAX THEN 0
             ELSE config.num_vaults + 1
    IN  [some |-> TRUE, value |-> n,
         config |-> [config EXCEPT !.num_vaults = n]]

\* Config::increment_vaults: [some |-> FALSE] is None.
Config_increment_vaults(config) ==
    IF config.num_vaults = U64_MAX
    THEN [some |-> FALSE, value |-> 0, config |-> config]
    ELSE [some |-> TRUE, value |-> config.num_vaults + 1,
          config |-> [config EXCEPT !.num_vaults = config.num_vaults + 1]]

\* The owner of the region is not looked at.
Config_deserialize_checked_AnyOwner(program_id, account) ==
    IF account.data = <<>>
    THEN [err |-> UninitializedAccount]
    ELSE LET d == Config_deserialize(account.data) IN
    IF d.err # Ok
    THEN [err |-> d.err]
    ELSE LET config == d.value IN
    IF ~Config_is_struct_valid(config)
    THEN [err |-> InvalidAccountData]
    ELSE LET expected ==
                 create_program_address(Config_seeds, config.bump, program_id)
         IN
    IF expected.err # Ok
    THEN [err |-> expected.err]
    ELSE IF expected.key # account.key
    THEN [err |-> InvalidAccountData]
    ELSE [err |-> Ok, value |-> config]

\* The re-derived address is not compared with the region's.
Config_deserialize_checked_NoAddressCheck(program_id, account) ==
    IF account.data = <<>>
    THEN [err |-> UninitializedAccount]
    ELSE IF account.owner # program_id
    THEN [err |-> InvalidAccountOwner]
    ELSE LET d == Config_deserialize(account.data) IN
    IF d.err # Ok
    THEN [err |-> d.err]
    ELSE LET config == d.value IN
    IF ~Config_is_struct_valid(config)
    THEN [err |-> InvalidAccountData]
    ELSE LET expected ==
                 create_program_address(Config_seeds, config.bump, program_id)
         IN
    IF expected.err # Ok
    THEN [err |-> expected.err]
    ELSE [err |-> Ok, value |-> config]

\* Config::deserialize_checked
Config_deserialize_checked(program_id, account) ==
    IF account.data = <<>>
    THEN [err |-> UninitializedAccount]
    ELSE IF account.owner # program_id
    THEN [err |-> InvalidAccountOwner]
    ELSE LET d == Config_deserialize(account.data) IN
    IF d.err # Ok
    THEN [err |-> d.err]
    ELSE LET config == d.value IN
    IF ~Config_is_struct_valid(config)
    THEN [err |-> InvalidAccountData]
    ELSE LET expected ==
                 create_program_address(Config_seeds, config.bump, program_id)
         IN
    IF expected.err # Ok
    THEN [err |-> expected.err]
    ELSE IF expected.key # account.key
    THEN [err |-> InvalidAccountData]
    ELSE [err |-> Ok, value |-> config]

\* The writable flag is checked after the record, not before it.
SanitizedConfig_sanitize_WritableLast(program_id, account, expect_writable) ==
    LET r == Config_deserialize_checked(program_id, account) IN
    IF r.err # Ok THEN r
    ELSE IF expect_writable /\ ~account.is_writable
    THEN [err |-> InvalidAccountData]
    ELSE r

\* SanitizedConfig::sanitize
SanitizedConfig_sanitize(program_id, account, expect_writable) ==
    IF expect_writable /\ ~account.is_writable
    THEN [err |-> InvalidAccountData]
    ELSE Config_deserialize_checked(program_id, account)

\* Only the type tag is written back.
SanitizedConfig_save_TagOnly(accts, key, config) ==
    LET data == accts[key].data IN
    IF Len(data) < Config_LEN
    THEN [err |-> BorshIoError, accounts |-> accts]
    ELSE [err |-> Ok,
          accounts |->
              [accts EXCEPT ![key].data =
                   <<AccountType_serialize(config.account_type)>>
                   \o SubSeq(data, 2, Len(data))]]

\* SanitizedConfig::save: the record is serialized over the front of its
\* region, whose length does not change; a region too short is an error.
SanitizedConfig_save(accts, key, config) ==
    LET bytes == Config_serialize(config)
        data == accts[key].data
    IN  IF Len(data) < Len(bytes)
        THEN [err |-> BorshIoError, accounts |-> accts]
        ELSE [err |-> Ok,
              accounts |->
                  [accts EXCEPT ![key].data =
                       bytes \o SubSeq(data, Len(bytes) + 1, Len(data))]]

\* --------------------------------------------------------------- Operator
Operator_new(base, admin, voter, bump) ==
    [account_type |-> "Operator",
     base |-> base,
     admin |-> admin,
     voter |-> voter,
     vault_count |-> 0,
     avs_count |-> 0,
     bump |-> bump]

Operator_seeds(base) == <<"operator", base>>

Operator_find_program_address(program_id, base) ==
    find_program_address(Operator_seeds(base), program_id)

\* The counter is left as it was.
Operator_increment_vault_count_Skip(operator) ==
    [some |-> TRUE, operator |-> operator]

\* The parent's counter of vault edges goes up by one; [some |-> FALSE]
\* when it would pass the representable range.
Operator_increment_vault_count(operator) ==
    IF operator.vault_count = U64_MAX
    THEN [some |-> FALSE, operator |-> operator]
    ELSE [some |-> TRUE,
          operator |-> [operator EXCEPT !.vault_count = operator.vault_count + 1]]

\* Operator::check_admin
Operator_check_admin(operator, admin) ==
    IF operator.admin = admin THEN Ok ELSE AuthorizationFailure

\* ------------------------------------------------------ activation state
SlotToggle_new(current_slot) == [slot_added |-> current_slot, slot_removed |-> NOT_REMOVED]

SlotToggle_is_active(state) == state.slot_removed = NOT_REMOVED

\* The record is activated whatever its state.
SlotToggle_activate_Unchecked(state, current_slot) ==
    [err |-> Ok, value |-> SlotToggle_new(current_slot)]

\* Add transition on an existing record: Removed -> Active(slot).
SlotToggle_activate(state, current_slot) ==
    IF SlotToggle_is_active(state)
    THEN [err |-> InvalidStateTransition]
    ELSE [err |-> Ok, value |-> SlotToggle_new(current_slot)]

\* A removal in the slot of the activation is refused.
SlotToggle_deactivate_Strict(state, current_slot) ==
    IF ~SlotToggle_is_active(state) \/ current_slot <= state.slot_added
    THEN [err |-> InvalidStateTransition]
    ELSE [err |-> Ok, value |-> [state EXCEPT !.slot_removed = current_slot]]

\* Remove transition: Active(slot_added) -> Removed(slot_added, slot).
SlotToggle_deactivate(state, current_slot) ==
    IF ~SlotToggle_is_active(state) \/ current_slot < state.slot_added
    THEN [err |-> InvalidStateTransition]
    ELSE [err |-> Ok, value |-> [state EXCEPT !.slot_removed = current_slot]]

\* ---------------------------------------------------- OperatorVaultTicket
\* The endpoints are stored in each other's place.
OperatorVaultTicket_new_Swapped(operator, vault, index, current_slot, bump) ==
    [account_type |-> "OperatorVaultTicket",
     operator |-> vault,
     vault |-> operator,
     index |-> index,
     state |-> SlotToggle_new(current_slot),
     bump |-> bump]

OperatorVaultTicket_new(operator, vault, index, current_slot, bump) ==
    [account_type |-> "OperatorVaultTicket",
     operator |-> operator,
     vault |-> vault,
     index |-> index,
     state |-> SlotToggle_new(current_slot),
     bump |-> bump]

OperatorVaultTicket_seeds(operator, vault) ==
    <<"operator_vault", operator, vault>>

OperatorVaultTicket_find_program_address(program_id, operator, vault) ==
    find_program_address(OperatorVaultTicket_seeds(operator, vault), program_id)

\* remove_vault(vault, slot) on the edge's record.
remove_vault(ticket, vault, current_slot) ==
    IF ticket.vault # vault
    THEN [err |-> InvalidAccountData]
    ELSE LET st == SlotToggle_deactivate(ticket.state, current_slot) IN
    IF st.err # Ok
    THEN [err |-> st.err]
    ELSE [err |-> Ok, value |-> [ticket EXCEPT !.state = st.value]]

\* ------------------------------------------------- checked account access
\* The seeds a record's address is re-derived from: its own stored fields.
StoredSeeds(record) ==
    CASE record.account_type = "Config" -> Config_seeds
      [] record.account_type = "Operator" -> Operator_seeds(record.base)
      [] record.account_type = "OperatorVaultTicket" ->
             OperatorVaultTicket_seeds(record.operator, record.vault)

\* validate(expected_kind, raw_region, program_identity, require_writable)
validate(expected_kind, account, program_id, require_writable) ==
    IF account.data = <<>>
    THEN [err |-> UninitializedAccount]
    ELSE IF account.owner # program_id
    THEN [err |-> InvalidAccountOwner]
    ELSE LET record == account.data[1] IN
    IF record.account_type # expected_kind
    THEN [err |-> InvalidAccountData]
    ELSE LET expected ==
                 create_program_address(StoredSeeds(record), record.bump,
                                        program_id)
         IN
    IF expected.err # Ok
    THEN [err |-> expected.err]
    ELSE IF expected.key # account.key
    THEN [err |-> InvalidAccountData]
    ELSE IF require_writable /\ ~account.is_writable
    THEN [err |-> InvalidAccountData]
    ELSE [err |-> Ok, value |-> record]

SanitizedOperator_sanitize(program_id, account, expect_writable) ==
    validate("Operator", account, program_id, expect_writable)

\* The edge record of (operator, vault), checked to belong to `operator`.
SanitizedOperatorVaultList_sanitize(program_id, account, expect_writable, operator) ==
    LET r == validate("OperatorVaultTicket", account, program_id,
                      expect_writable)
    IN  IF r.err # Ok THEN r
        ELSE IF r.value.operator # operator
        THEN [err |-> InvalidAccountData]
        ELSE r

SanitizedSignerAccount_sanitize(account, expect_writable) ==
    IF ~account.is_signer
    THEN [err |-> MissingRequiredSignature]
    ELSE IF expect_writable /\ ~account.is_writable
    THEN [err |-> InvalidAccountData]
    ELSE [err |-> Ok]

\* save() of a validated handle.
save(accts, key, record) == [accts EXCEPT ![key].data = <<record>>]

\* ------------------------------------------------- instruction processors
\* A processor maps (accounts, the request's account infos, slot) to
\* [err, accounts]: the result and the accounts after it.

\* The admin account is not required to have signed.
SanitizedAccounts_sanitize_NoSigner(program_id, ai) ==
    LET config == SanitizedConfig_sanitize(program_id, ai.config, FALSE) IN
    IF config.err # Ok THEN [err |-> config.err] ELSE
    LET operator == SanitizedOperator_sanitize(program_id, ai.operator, FALSE) IN
    IF operator.err # Ok THEN [err |-> operator.err] ELSE
    LET operator_vault_list ==
            SanitizedOperatorVaultList_sanitize(
                program_id, ai.operator_vault_list, TRUE, ai.operator.key)
    IN
    IF operator_vault_list.err # Ok THEN [err |-> operator_vault_list.err] ELSE
    [err |-> Ok,
     operator |-> operator.value,
     operator_vault_list |-> operator_vault_list.value,
     admin |-> ai.admin,
     vault |-> ai.vault]

\* SanitizedAccounts::sanitize of OperatorRemoveVault
SanitizedAccounts_sanitize(program_id, ai) ==
    LET config == SanitizedConfig_sanitize(program_id, ai.config, FALSE) IN
    IF config.err # Ok THEN [err |-> config.err] ELSE
    LET operator == SanitizedOperator_sanitize(program_id, ai.operator, FALSE) IN
    IF operator.err # Ok THEN [err |-> operator.err] ELSE
    LET operator_vault_list ==
            SanitizedOperatorVaultList_sanitize(
                program_id, ai.operator_vault_list, TRUE, ai.operator.key)
    IN
    IF operator_vault_list.err # Ok THEN [err |-> operator_vault_list.err] ELSE
    LET admin == SanitizedSignerAccount_sanitize(ai.admin, FALSE) IN
    IF admin.err # Ok THEN [err |-> admin.err] ELSE
    [err |-> Ok,
     operator |-> operator.value,
     operator_vault_list |-> operator_vault_list.value,
     admin |-> ai.admin,
     vault |-> ai.vault]

\* Variants of process_operator_remove_vault with one step changed, used to
\* show that the properties below depend on that step.
\* save() is never called.
process_operator_remove_vault_NoSave(program_id, accts, ai, current_slot) ==
    LET s == SanitizedAccounts_sanitize(program_id, ai) IN
    IF s.err # Ok THEN [err |-> s.err, accounts |-> accts] ELSE
    LET chk == Operator_check_admin(s.operator, s.admin.key) IN
    IF chk # Ok THEN [err |-> chk, accounts |-> accts] ELSE
    LET r == remove_vault(s.operator_vault_list, s.vault.key, current_slot) IN
    IF r.err # Ok THEN [err |-> r.err, accounts |-> accts] ELSE
    [err |-> Ok, accounts |-> accts]

\* The result of remove_vault is dropped instead of propagated.
process_operator_remove_vault_IgnoreTransition(program_id, accts, ai, current_slot) ==
    LET s == SanitizedAccounts_sanitize(program_id, ai) IN
    IF s.err # Ok THEN [err |-> s.err, accounts |-> accts] ELSE
    LET chk == Operator_check_admin(s.operator, s.admin.key) IN
    IF chk # Ok THEN [err |-> chk, accounts |-> accts] ELSE
    LET r == remove_vault(s.operator_vault_list, s.vault.key, current_slot) IN
    IF r.err # Ok
    THEN [err |-> Ok,
          accounts |-> save(accts, ai.operator_vault_list.key,
                            s.operator_vault_list)]
    ELSE [err |-> Ok,
          accounts |-> save(accts, ai.operator_vault_list.key, r.value)]

\* check_admin is never called.
process_operator_remove_vault_NoCheckAdmin(program_id, accts, ai, current_slot) ==
    LET s == SanitizedAccounts_sanitize(program_id, ai) IN
    IF s.err # Ok THEN [err |-> s.err, accounts |-> accts] ELSE
    LET r == remove_vault(s.operator_vault_list, s.vault.key, current_slot) IN
    IF r.err # Ok THEN [err |-> r.err, accounts |-> accts] ELSE
    [err |-> Ok,
     accounts |-> save(accts, ai.operator_vault_list.key, r.value)]

\* The transition is applied and saved before check_admin's result is
\* propagated.
process_operator_remove_vault_SaveFirst(program_id, accts, ai, current_slot) ==
    LET s == SanitizedAccounts_sanitize(program_id, ai) IN
    IF s.err # Ok THEN [err |-> s.err, accounts |-> accts] ELSE
    LET r == remove_vault(s.operator_vault_list, s.vault.key, current_slot) IN
    IF r.err # Ok THEN [err |-> r.err, accounts |-> accts] ELSE
    LET chk == Operator_check_admin(s.operator, s.admin.key) IN
    [err |-> chk,
     accounts |-> save(accts, ai.operator_vault_list.key, r.value)]

\* The record's region is closed instead of saved.
process_operator_remove_vault_Close(program_id, accts, ai, current_slot) ==
    LET s == SanitizedAccounts_sanitize(program_id, ai) IN
    IF s.err # Ok THEN [err |-> s.err, accounts |-> accts] ELSE
    LET chk == Operator_check_admin(s.operator, s.admin.key) IN
    IF chk # Ok THEN [err |-> chk, accounts |-> accts] ELSE
    LET r == remove_vault(s.operator_vault_list, s.vault.key, current_slot) IN
    IF r.err # Ok THEN [err |-> r.err, accounts |-> accts] ELSE
    [err |-> Ok,
     accounts |-> [accts EXCEPT ![ai.operator_vault_list.key] =
                      [owner |-> SystemProgramId, data |-> <<>>]]]

\* The parent's counter is taken down by one and the parent saved too.
process_operator_remove_vault_Decrement(program_id, accts, ai, current_slot) ==
    LET s == SanitizedAccounts_sanitize(program_id, ai) IN
    IF s.err # Ok THEN [err |-> s.err, accounts |-> accts] ELSE
    LET chk == Operator_check_admin(s.operator, s.admin.key) IN
    IF chk # Ok THEN [err |-> chk, accounts |-> accts] ELSE
    LET r == remove_vault(s.operator_vault_list, s.vault.key, current_slot) IN
    IF r.err # Ok THEN [err |-> r.err, accounts |-> accts] ELSE
    [err |-> Ok,
     accounts |->
         save(save(accts, ai.operator_vault_list.key, r.value),
              ai.operator.key,
              [s.operator EXCEPT !.vault_count = s.operator.vault_count - 1])]

\* The transition is run at slot 0 instead of the clock's slot.
process_operator_remove_vault_StaleSlot(program_id, accts, ai, current_slot) ==
    LET s == SanitizedAccounts_sanitize(program_id, ai) IN
    IF s.err # Ok THEN [err |-> s.err, accounts |-> accts] ELSE
    LET chk == Operator_check_admin(s.operator, s.admin.key) IN
    IF chk # Ok THEN [err |-> chk, accounts |-> accts] ELSE
    LET r == remove_vault(s.operator_vault_list, s.vault.key, 0) IN
    IF r.err # Ok THEN [err |-> r.err, accounts |-> accts] ELSE
    [err |-> Ok,
     accounts |-> save(accts, ai.operator_vault_list.key, r.value)]

\* The state transition is run before the admin is checked.
process_operator_remove_vault_TransitionFirst(program_id, accts, ai, current_slot) ==
    LET s == SanitizedAccounts_sanitize(program_id, ai) IN
    IF s.err # Ok THEN [err |-> s.err, accounts |-> accts] ELSE
    LET r == remove_vault(s.operator_vault_list, s.vault.key, current_slot) IN
    IF r.err # Ok THEN [err |-> r.err, accounts |-> accts] ELSE
    LET chk == Operator_check_admin(s.operator, s.admin.key) IN
    IF chk # Ok THEN [err |-> chk, accounts |-> accts] ELSE
    [err |-> Ok,
     accounts |-> save(accts, ai.operator_vault_list.key, r.value)]

\* process_operator_remove_vault
process_operator_remove_vault(program_id, accts, ai, current_slot) ==
    LET s == SanitizedAccounts_sanitize(program_id, ai) IN
    IF s.err # Ok THEN [err |-> s.err, accounts |-> accts] ELSE
    LET chk == Operator_check_admin(s.operator, s.admin.key) IN
    IF chk # Ok THEN [err |-> chk, accounts |-> accts] ELSE
    LET r == remove_vault(s.operator_vault_list, s.vault.key, current_slot) IN
    IF r.err # Ok THEN [err |-> r.err, accounts |-> accts] ELSE
    [err |-> Ok,
     accounts |-> save(accts, ai.operator_vault_list.key, r.value)]

\* The index of a new edge is taken from a count kept in the Config, which
\* every parent shares, and that count is raised.
process_operator_add_vault_GlobalIndex(program_id, accts, ai, current_slot) ==
    LET config == SanitizedConfig_sanitize(program_id, ai.config, FALSE) IN
    IF config.err # Ok THEN [err |-> config.err, accounts |-> accts] ELSE
    LET operator == SanitizedOperator_sanitize(program_id, ai.operator, TRUE) IN
    IF operator.err # Ok THEN [err |-> operator.err, accounts |-> accts] ELSE
    LET pda == OperatorVaultTicket_find_program_address(
                   program_id, ai.operator.key, ai.vault.key)
        existing == IF ai.operator_vault_ticket.data = <<>>
                    THEN [err |-> Ok]
                    ELSE SanitizedOperatorVaultList_sanitize(
                             program_id, ai.operator_vault_ticket, TRUE,
                             ai.operator.key)
    IN
    IF ai.operator_vault_ticket.key # pda.key
    THEN [err |-> InvalidAccountData, accounts |-> accts] ELSE
    IF existing.err # Ok THEN [err |-> existing.err, accounts |-> accts] ELSE
    LET admin == SanitizedSignerAccount_sanitize(ai.admin, FALSE) IN
    IF admin.err # Ok THEN [err |-> admin.err, accounts |-> accts] ELSE
    LET chk == Operator_check_admin(operator.value, ai.admin.key) IN
    IF chk # Ok THEN [err |-> chk, accounts |-> accts] ELSE
    IF ai.operator_vault_ticket.data = <<>>
    THEN \* first creation: the index is the parent's counter
         LET inc == Operator_increment_vault_count(operator.value)
             ticket == OperatorVaultTicket_new(
                           ai.operator.key, ai.vault.key,
                           config.value.num_vaults, current_slot, pda.bump)
             counted == SanitizedConfig_save(
                            accts, ai.config.key,
                            Config_increment_vaults(config.value).config)
         IN  IF ~inc.some
             THEN [err |-> CounterOverflow, accounts |-> accts]
             ELSE [err |-> Ok,
                   accounts |->
                       save([counted.accounts EXCEPT ![pda.key] =
                                 [owner |-> program_id, data |-> <<ticket>>]],
                            ai.operator.key, inc.operator)]
    ELSE \* re-activation of the existing record
         LET st == SlotToggle_activate(existing.value.state, current_slot) IN
         IF st.err # Ok THEN [err |-> st.err, accounts |-> accts] ELSE
         [err |-> Ok,
          accounts |-> save(accts, pda.key,
                            [existing.value EXCEPT !.state = st.value])]

\* process_operator_add_vault: validate the parent and the edge record,
\* check the admin, run the add transition, persist the edge record and,
\* on first creation, the parent's counter.
process_operator_add_vault(program_id, accts, ai, current_slot) ==
    LET config == SanitizedConfig_sanitize(program_id, ai.config, FALSE) IN
    IF config.err # Ok THEN [err |-> config.err, accounts |-> accts] ELSE
    LET operator == SanitizedOperator_sanitize(program_id, ai.operator, TRUE) IN
    IF operator.err # Ok THEN [err |-> operator.err, accounts |-> accts] ELSE
    LET pda == OperatorVaultTicket_find_program_address(
                   program_id, ai.operator.key, ai.vault.key)
        existing == IF ai.operator_vault_ticket.data = <<>>
                    THEN [err |-> Ok]
                    ELSE SanitizedOperatorVaultList_sanitize(
                             program_id, ai.operator_vault_ticket, TRUE,
                             ai.operator.key)
    IN
    IF ai.operator_vault_ticket.key # pda.key
    THEN [err |-> InvalidAccountData, accounts |-> accts] ELSE
    IF existing.err # Ok THEN [err |-> existing.err, accounts |-> accts] ELSE
    LET admin == SanitizedSignerAccount_sanitize(ai.admin, FALSE) IN
    IF admin.err # Ok THEN [err |-> admin.err, accounts |-> accts] ELSE
    LET chk == Operator_check_admin(operator.value, ai.admin.key) IN
    IF chk # Ok THEN [err |-> chk, accounts |-> accts] ELSE
    IF ai.operator_vault_ticket.data = <<>>
    THEN \* first creation: the index is the parent's counter
         LET inc == Operator_increment_vault_count(operator.value)
             ticket == OperatorVaultTicket_new(
                           ai.operator.key, ai.vault.key,
                           operator.value.vault_count, current_slot, pda.bump)
         IN  IF ~inc.some
             THEN [err |-> CounterOverflow, accounts |-> accts]
             ELSE [err |-> Ok,
                   accounts |->
                       save([accts EXCEPT ![pda.key] =
                                 [owner |-> program_id, data |-> <<ticket>>]],
                            ai.operator.key, inc.operator)]
    ELSE \* re-activation of the existing record
         LET st == SlotToggle_activate(existing.value.state, current_slot) IN
         IF st.err # Ok THEN [err |-> st.err, accounts |-> accts] ELSE
         [err |-> Ok,
          accounts |-> save(accts, pda.key,
                            [existing.value EXCEPT !.state = st.value])]

\* An occupied address is written over.
process_initialize_config_Overwrite(program_id, accts, ai) ==
    LET pda == Config_find_program_address(program_id) IN
    IF ai.config.key # pda.key
    THEN [err |-> InvalidAccountData, accounts |-> accts] ELSE
    IF ~ai.admin.is_signer
    THEN [err |-> MissingRequiredSignature, accounts |-> accts] ELSE
    [err |-> Ok,
     accounts |-> [accts EXCEPT ![pda.key] =
                      [owner |-> program_id,
                       data |-> Config_serialize(
                                    Config_new(ai.admin.key, VaultProgramId,
                                               pda.bump))]]]

\* process_initialize_config
process_initialize_config(program_id, accts, ai) ==
    LET pda == Config_find_program_address(program_id) IN
    IF ai.config.key # pda.key
    THEN [err |-> InvalidAccountData, accounts |-> accts] ELSE
    IF ai.config.data # <<>>
    THEN [err |-> AlreadyExists, accounts |-> accts] ELSE
    IF ~ai.admin.is_signer
    THEN [err |-> MissingRequiredSignature, accounts |-> accts] ELSE
    [err |-> Ok,
     accounts |-> [accts EXCEPT ![pda.key] =
                      [owner |-> program_id,
                       data |-> Config_serialize(
                                    Config_new(ai.admin.key, VaultProgramId,
                                               pda.bump))]]]

\* An occupied address is written over.
process_initialize_operator_Overwrite(program_id, accts, ai) ==
    LET config == SanitizedConfig_sanitize(program_id, ai.config, FALSE) IN
    IF config.err # Ok THEN [err |-> config.err, accounts |-> accts] ELSE
    LET pda == Operator_find_program_address(program_id, ai.base.key) IN
    IF ai.operator.key # pda.key
    THEN [err |-> InvalidAccountData, accounts |-> accts] ELSE
    IF ~ai.admin.is_signer \/ ~ai.base.is_signer
    THEN [err |-> MissingRequiredSignature, accounts |-> accts] ELSE
    [err |-> Ok,
     accounts |-> [accts EXCEPT ![pda.key] =
                      [owner |-> program_id,
                       data |-> <<Operator_new(ai.base.key, ai.admin.key,
                                               ai.admin.key, pda.bump)>>]]]

\* process_initialize_operator
process_initialize_operator(program_id, accts, ai) ==
    LET config == SanitizedConfig_sanitize(program_id, ai.config, FALSE) IN
    IF config.err # Ok THEN [err |-> config.err, accounts |-> accts] ELSE
    LET pda == Operator_find_program_address(program_id, ai.base.key) IN
    IF ai.operator.key # pda.key
    THEN [err |-> InvalidAccountData, accounts |-> accts] ELSE
    IF ai.operator.data # <<>>
    THEN [err |-> AlreadyExists, accounts |-> accts] ELSE
    IF ~ai.admin.is_signer \/ ~ai.base.is_signer
    THEN [err |-> MissingRequiredSignature, accounts |-> accts] ELSE
    [err |-> Ok,
     accounts |-> [accts EXCEPT ![pda.key] =
                      [owner |-> program_id,
                       data |-> <<Operator_new(ai.base.key, ai.admin.key,
                                               ai.admin.key, pda.bump)>>]]]

\* ------------------------------------------------- addresses and requests
ConfigAddr == Config_find_program_address(ProgramId).key
OperatorAddrs ==
    [b \in Bases |-> Operator_find_program_address(ProgramId, b).key]
OperatorAddr(base) == OperatorAddrs[base]
TicketAddrs ==
    [e \in Edges |->
        OperatorVaultTicket_find_program_address(
            ProgramId, OperatorAddr(e[1]), e[2]).key]
TicketAddr(base, vault) == TicketAddrs[<<base, vault>>]

Addresses ==
    {ConfigAddr} \cup {OperatorAddr(b) : b \in Bases}
                 \cup {TicketAddrs[e] : e \in Edges}

EmptyAccount == [owner |-> SystemProgramId, data |-> <<>>]

\* The AccountInfo the runtime hands a processor for `key`.
AccountInfo(accts, key, is_signer, is_writable) ==
    LET a == IF key \in DOMAIN accts THEN accts[key] ELSE EmptyAccount IN
    [key |-> key, owner |-> a.owner, data |-> a.data,
     is_signer |-> is_signer, is_writable |-> is_writable]

\* Activation state of an edge's record, as the state machine names it.
TicketStatus(accts, base, vault) ==
    LET a == accts[TicketAddr(base, vault)] IN
    IF a.data = <<>> THEN "Uninitialized"
    ELSE IF SlotToggle_is_active(a.data[1].state) THEN "Active"
    ELSE "Removed"

\* The account infos of each request, as the client assembles them.
InitializeConfigAccounts(accts, admin, signed) ==
    [config |-> AccountInfo(accts, ConfigAddr, FALSE, TRUE),
     admin |-> AccountInfo(accts, admin, signed, TRUE)]

InitializeOperatorAccounts(accts, base, admin, signed) ==
    [config |-> AccountInfo(accts, ConfigAddr, FALSE, FALSE),
     operator |-> AccountInfo(accts, OperatorAddr(base), FALSE, TRUE),
     admin |-> AccountInfo(accts, admin, signed, TRUE),
     base |-> AccountInfo(accts, base, TRUE, FALSE)]

OperatorAddVaultAccounts(accts, base, vault, admin, signed) ==
    [config |-> AccountInfo(accts, ConfigAddr, FALSE, FALSE),
     operator |-> AccountInfo(accts, OperatorAddr(base), FALSE, TRUE),
     vault |-> AccountInfo(accts, vault, FALSE, FALSE),
     operator_vault_ticket |->
         AccountInfo(accts, TicketAddr(base, vault), FALSE, TRUE),
     admin |-> AccountInfo(accts, admin, signed, FALSE)]

OperatorRemoveVaultAccounts(accts, base, vault, admin, signed) ==
    [config |-> AccountInfo(accts, ConfigAddr, FALSE, FALSE),
     operator |-> AccountInfo(accts, OperatorAddr(base), FALSE, FALSE),
     operator_vault_list |->
         AccountInfo(accts, TicketAddr(base, vault), FALSE, TRUE),
     admin |-> AccountInfo(accts, admin, signed, FALSE),
     vault |-> AccountInfo(accts, vault, FALSE, FALSE)]

\* The outcome of each request in the current state.
InitializeConfigResult(admin, signed) ==
    process_initialize_config(
        ProgramId, accounts, InitializeConfigAccounts(accounts, admin, signed))

InitializeOperatorResult(base, admin, signed) ==
    process_initialize_operator(
        ProgramId, accounts,
        InitializeOperatorAccounts(accounts, base, admin, signed))

OperatorAddVaultResult(base, vault, admin, signed) ==
    process_operator_add_vault(
        ProgramId, accounts,
        OperatorAddVaultAccounts(accounts, base, vault, admin, signed), slot)

OperatorRemoveVaultResult(base, vault, admin, signed) ==
    process_operator_remove_vault(
        ProgramId, accounts,
        OperatorRemoveVaultAccounts(accounts, base, vault, admin, signed), slot)

\* What `last` keeps of a request: the operation, its result, and the
\* activation state the edge it names had before it.
Request(op, res, pre) == [op |-> op, res |-> res, pre |-> pre]

Init ==
    /\ slot = 0
    /\ accounts = [a \in Addresses |-> EmptyAccount]
    /\ last = Request("none", Ok, "-")
    /\ handle = <<>>

\* The clock advances.
Tick ==
    /\ slot < MaxSlot
    /\ slot' = slot + 1
    /\ last' = Request("tick", Ok, "-")
    /\ UNCHANGED <<accounts, handle>>

initialize_config(admin, signed) ==
    LET r == InitializeConfigResult(admin, signed) IN
        /\ accounts' = r.accounts
        /\ last' = Request("initialize_config", r.err, "-")
        /\ UNCHANGED <<slot, handle>>

initialize_operator(base, admin, signed) ==
    LET r == InitializeOperatorResult(base, admin, signed) IN
        /\ accounts' = r.accounts
        /\ last' = Request("initialize_operator", r.err, "-")
        /\ UNCHANGED <<slot, handle>>

operator_add_vault(base, vault, admin, signed) ==
    LET r == OperatorAddVaultResult(base, vault, admin, signed) IN
        /\ accounts' = r.accounts
        /\ last' = Request("operator_add_vault", r.err,
                           TicketStatus(accounts, base, vault))
        /\ UNCHANGED <<slot, handle>>

operator_remove_vault(base, vault, admin, signed) ==
    LET r == OperatorRemoveVaultResult(base, vault, admin, signed) IN
        /\ accounts' = r.accounts
        /\ last' = Request("operator_remove_vault", r.err,
                           TicketStatus(accounts, base, vault))
        /\ UNCHANGED <<slot, handle>>

Next ==
    \/ Tick
    \/ \E admin \in ConfigAdmins : initialize_config(admin, TRUE)
    \/ \E i \in OperatorInits : initialize_operator(i[1], i[2], TRUE)
    \/ \E e \in Edges, admin \in Signers :
           operator_add_vault(e[1], e[2], admin, TRUE)
    \/ \E e \in Edges, admin \in Signers, signed \in BOOLEAN :
           operator_remove_vault(e[1], e[2], admin, signed)

Spec == Init /\ [][Next]_vars

\* --------------------------------------------- the Config handle, alone
\* A second state machine over the same variables: the storage holds
\* arbitrary regions at the two addresses a Config bump can derive, and a
\* caller validates them, mutates the in-memory record of the handle it
\* obtained, and saves it.

\* The count up to which increment_vaults is exercised from below.
MaxVaults == 2

\* The owner is compared instead of the key.
SanitizedSystemProgram_sanitize_ByOwner(account) ==
    IF account.owner = SystemProgramId
    THEN [err |-> Ok]
    ELSE [err |-> InvalidAccountData]

\* SanitizedSystemProgram::sanitize
SanitizedSystemProgram_sanitize(account) ==
    IF account.key = SystemProgramId
    THEN [err |-> Ok]
    ELSE [err |-> InvalidAccountData]

\* The address derived with the bump below the canonical one.
AltConfigAddr ==
    create_program_address(
        Config_seeds, Config_find_program_address(ProgramId).bump - 1,
        ProgramId).key

ConfigKeys == {ConfigAddr, AltConfigAddr}

\* A well-formed Config with the given count and bump.
ConfigWith(num_vaults, bump) ==
    [Config_new(Wallet("alice"), VaultProgramId, bump)
        EXCEPT !.num_vaults = num_vaults]

\* Region contents: empty, well-formed with each bump, near the end of
\* the count's range, carrying another record's tag, carrying no
\* variant's tag, cut short, and longer than the record.
ConfigDatas ==
    {<<>>}
    \cup {Config_serialize(ConfigWith(0, b)) : b \in BumpSeeds}
    \cup {Config_serialize(ConfigWith(U64_MAX - 1, b)) : b \in {254, 255}}
    \cup {[Config_serialize(ConfigWith(0, 255)) EXCEPT ![1] = t] :
              t \in {AccountType_serialize("Operator"), Len(AccountTypes)}}
    \cup {SubSeq(Config_serialize(ConfigWith(0, 255)), 1, 1)}
    \cup {Config_serialize(ConfigWith(0, 255)) \o <<0>>}

ConfigRegions ==
    {[owner |-> o, data |-> d] : o \in {ProgramId, SystemProgramId},
                                 d \in ConfigDatas}

InitConfig ==
    /\ slot = 0
    /\ accounts \in [ConfigKeys -> ConfigRegions]
    /\ last = Request("none", Ok, "-")
    /\ handle = <<>>

\* SanitizedConfig::sanitize on the region at `key`
config_sanitize(key, is_writable, expect_writable) ==
    LET r == SanitizedConfig_sanitize(
                 ProgramId, AccountInfo(accounts, key, FALSE, is_writable),
                 expect_writable)
    IN  /\ handle' = IF r.err = Ok
                      THEN <<[key |-> key, config |-> r.value]>>
                      ELSE <<>>
        /\ last' = Request("sanitize", r.err,
                           [key |-> key, is_writable |-> is_writable,
                            expect_writable |-> expect_writable])
        /\ UNCHANGED <<accounts, slot>>

\* config_mut().increment_vaults() on the handle
config_increment_vaults ==
    /\ handle # <<>>
    /\ \/ handle[1].config.num_vaults < MaxVaults
       \/ handle[1].config.num_vaults >= U64_MAX - 1
    /\ LET r == Config_increment_vaults(handle[1].config) IN
        /\ handle' = <<[handle[1] EXCEPT !.config = r.config]>>
        /\ last' = Request("increment_vaults",
                           IF r.some THEN Ok ELSE CounterOverflow, r.value)
    /\ UNCHANGED <<accounts, slot>>

\* save() on the handle
config_save ==
    /\ handle # <<>>
    /\ LET r == SanitizedConfig_save(accounts, handle[1].key,
                                     handle[1].config)
       IN  /\ accounts' = r.accounts
           /\ last' = Request("save", r.err, "-")
    /\ UNCHANGED <<slot, handle>>

\* The keys an account handed to SanitizedSystemProgram::sanitize bears.
SystemProgramKeys == ConfigKeys \cup {SystemProgramId, Wallet("alice")}

\* An AccountInfo built, as in AccountInfo::new, from a key, the owner and
\* data of a region, a lamport balance and the two flags.
AccountInfo_new(key, is_signer, is_writable, lamports, region) ==
    [key |-> key, owner |-> region.owner, data |-> region.data,
     lamports |-> lamports,
     is_signer |-> is_signer, is_writable |-> is_writable]

\* SanitizedSystemProgram::sanitize on an account bearing `key`, with the
\* owner and data of the region at `a`
system_program_sanitize(key, a, lamports, is_signer, is_writable) ==
    LET r == SanitizedSystemProgram_sanitize(
                 AccountInfo_new(key, is_signer, is_writable, lamports,
                                 accounts[a]))
    IN  /\ last' = Request("system_program_sanitize", r.err,
                           [key |-> key, owner |-> accounts[a].owner,
                            has_data |-> accounts[a].data # <<>>,
                            is_signer |-> is_signer,
                            is_writable |-> is_writable])
        /\ UNCHANGED <<accounts, slot, handle>>

NextConfig ==
    \/ \E key \in ConfigKeys, is_writable \in BOOLEAN,
          expect_writable \in BOOLEAN :
           config_sanitize(key, is_writable, expect_writable)
    \/ config_increment_vaults
    \/ config_save
    \/ \E key \in SystemProgramKeys, a \in ConfigKeys,
          is_signer \in BOOLEAN, is_writable \in BOOLEAN :
           system_program_sanitize(key, a, 0, is_signer, is_writable)

SpecConfig == InitConfig /\ [][NextConfig]_vars

\* ------------------------------------------------------------- properties
\* Readers of the persisted storage.
OperatorExists(accts, base) == accts[OperatorAddr(base)].data # <<>>
OperatorRecord(accts, base) == accts[OperatorAddr(base)].data[1]
TicketExists(accts, e) == accts[TicketAddrs[e]].data # <<>>
TicketRecord(accts, e) == accts[TicketAddrs[e]].data[1]
Active(slot_added) == [slot_added |-> slot_added, slot_removed |-> NOT_REMOVED]
Removed(slot_added, slot_removed) ==
    [slot_added |-> slot_added, slot_removed |-> slot_removed]
\* The edges whose record is Active with slot_added equal to the clock.
ActivatedNow == {e \in Edges : /\ TicketExists(accounts, e)
                               /\ TicketRecord(accounts, e).state = Active(slot)}

\* C1: for an edge that is Uninitialized under a parent whose counter is
\* 0, a first add by the parent's admin at the current slot s0 succeeds
\* with index 0 and state Active(s0); a remove by the admin at any slot
\* s1 >= s0 then succeeds with state Removed(s0, s1); and a second add at
\* any slot s2 >= s1 then succeeds with state Active(s2), the index still 0.
C1_AddRemoveAdd ==
    \A e \in Edges :
        (/\ OperatorExists(accounts, e[1])
         /\ OperatorRecord(accounts, e[1]).vault_count = 0
         /\ ~TicketExists(accounts, e))
        =>
        LET admin == OperatorRecord(accounts, e[1]).admin
            r1 == process_operator_add_vault(
                      ProgramId, accounts,
                      OperatorAddVaultAccounts(accounts, e[1], e[2], admin, TRUE),
                      slot)
        IN  /\ r1.err = Ok
            /\ TicketRecord(r1.accounts, e).index = 0
            /\ TicketRecord(r1.accounts, e).state = Active(slot)
            /\ \A s1 \in slot..MaxSlot :
                 LET r2 == process_operator_remove_vault(
                               ProgramId, r1.accounts,
                               OperatorRemoveVaultAccounts(
                                   r1.accounts, e[1], e[2], admin, TRUE),
                               s1)
                 IN  /\ r2.err = Ok
                     /\ TicketRecord(r2.accounts, e).index = 0
                     /\ TicketRecord(r2.accounts, e).state = Removed(slot, s1)
                     /\ \A s2 \in s1..MaxSlot :
                          LET r3 == process_operator_add_vault(
                                        ProgramId, r2.accounts,
                                        OperatorAddVaultAccounts(
                                            r2.accounts, e[1], e[2], admin, TRUE),
                                        s2)
                          IN  /\ r3.err = Ok
                              /\ TicketRecord(r3.accounts, e).index = 0
                              /\ TicketRecord(r3.accounts, e).state = Active(s2)

\* A second add has just succeeded, at a later slot than the first, on the
\* edge that holds index 0 under its parent.
C1_Witness ==
    /\ last.op = "operator_add_vault" /\ last.res = Ok /\ last.pre = "Removed"
    /\ slot = MaxSlot
    /\ \E e \in Edges : /\ ActivatedNow = {e}
                        /\ TicketRecord(accounts, e).index = 0

\* C2: an add issued by the parent's admin on an edge that is Active fails
\* with InvalidStateTransition at every slot from the current one on, and
\* leaves every account as it was: the record stays Active with the same
\* slot_added and no other record appears.
C2_AddOnActiveFails ==
    \A e \in Edges :
        (TicketExists(accounts, e)
            /\ SlotToggle_is_active(TicketRecord(accounts, e).state))
        =>
        \A s \in slot..MaxSlot :
            LET r == process_operator_add_vault(
                         ProgramId, accounts,
                         OperatorAddVaultAccounts(
                             accounts, e[1], e[2],
                             OperatorRecord(accounts, e[1]).admin, TRUE),
                         s)
            IN  /\ r.err = InvalidStateTransition
                /\ r.accounts = accounts

\* An add on an Active edge has just failed with InvalidStateTransition.
C2_Witness ==
    /\ last.op = "operator_add_vault" /\ last.pre = "Active"
    /\ last.res = InvalidStateTransition

\* C3: a remove on an edge whose record was never created fails with
\* UninitializedAccount (the spec's UninitializedRecord) whoever issues it,
\* a remove by the parent's admin on an edge that is Removed fails with
\* InvalidStateTransition, and both leave every account as it was.
C3_RemoveOnInactiveFails ==
    \A e \in Edges :
        /\ ~TicketExists(accounts, e) =>
               \A a \in Signers, signed \in BOOLEAN :
                   LET r == OperatorRemoveVaultResult(e[1], e[2], a, signed)
                   IN  r.err = UninitializedAccount /\ r.accounts = accounts
        /\ (TicketExists(accounts, e)
               /\ ~SlotToggle_is_active(TicketRecord(accounts, e).state)) =>
               LET r == OperatorRemoveVaultResult(
                            e[1], e[2],
                            OperatorRecord(accounts, e[1]).admin, TRUE)
               IN  r.err = InvalidStateTransition /\ r.accounts = accounts

\* A remove on a Removed edge has just failed with InvalidStateTransition
\* while another edge of an initialized parent was never created.
C3_Witness ==
    /\ last.op = "operator_remove_vault" /\ last.pre = "Removed"
    /\ last.res = InvalidStateTransition
    /\ \E e \in Edges : OperatorExists(accounts, e[1])
                        /\ ~TicketExists(accounts, e)

\* C4: under every parent the indices of the records ever created are
\* exactly 0 .. count-1, each held by one record, count being the parent's
\* counter; a parent that does not exist has no records.
C4_IndicesDense ==
    \A b \in Bases :
        LET es == {e \in Edges : e[1] = b /\ TicketExists(accounts, e)} IN
        IF OperatorExists(accounts, b)
        THEN /\ {TicketRecord(accounts, e).index : e \in es}
                    = 0..(OperatorRecord(accounts, b).vault_count - 1)
             /\ Cardinality(es) = OperatorRecord(accounts, b).vault_count
        ELSE es = {}

\* Both parents hold edges, the first one two of them, one edge is Removed
\* and another has just been added again.
C4_Witness ==
    /\ last.op = "operator_add_vault" /\ last.res = Ok /\ last.pre = "Removed"
    /\ \A b \in Bases : OperatorExists(accounts, b)
    /\ OperatorRecord(accounts, Wallet("base1")).vault_count = 2
    /\ OperatorRecord(accounts, Wallet("base2")).vault_count = 1
    /\ \E e \in Edges : /\ TicketExists(accounts, e)
                        /\ ~SlotToggle_is_active(TicketRecord(accounts, e).state)

\* The signers that are not the stored admin of the parent of `base`.
NonAdmins(base) ==
    {a \in Signers : a # OperatorRecord(accounts, base).admin}

\* C5 as claimed: an add or a remove signed by someone other than the
\* parent's stored admin fails with AuthorizationFailure and changes no
\* account, whatever the state of the edge's record.
C5_NonAdminAuthorizationFailure ==
    \A e \in Edges :
        OperatorExists(accounts, e[1]) =>
            \A a \in NonAdmins(e[1]) :
                LET add == OperatorAddVaultResult(e[1], e[2], a, TRUE)
                    rem == OperatorRemoveVaultResult(e[1], e[2], a, TRUE)
                IN  /\ add.err = AuthorizationFailure
                    /\ add.accounts = accounts
                    /\ rem.err = AuthorizationFailure
                    /\ rem.accounts = accounts

\* C5, amended: an add or a remove signed by someone other than the
\* parent's stored admin fails and changes no account; the error is
\* AuthorizationFailure, except that a remove on an edge whose record was
\* never created fails with UninitializedAccount, the record being
\* validated before the admin is checked.
C5_NonAdminFails ==
    \A e \in Edges :
        OperatorExists(accounts, e[1]) =>
            \A a \in NonAdmins(e[1]) :
                LET add == OperatorAddVaultResult(e[1], e[2], a, TRUE)
                    rem == OperatorRemoveVaultResult(e[1], e[2], a, TRUE)
                IN  /\ add.err = AuthorizationFailure
                    /\ add.accounts = accounts
                    /\ rem.err = IF TicketExists(accounts, e)
                                 THEN AuthorizationFailure
                                 ELSE UninitializedAccount
                    /\ rem.accounts = accounts

\* A remove on an Active edge has just failed with AuthorizationFailure.
C5_Witness ==
    /\ last.op = "operator_remove_vault" /\ last.pre = "Active"
    /\ last.res = AuthorizationFailure

\* C6: when an add on an edge whose record does not exist succeeds, its
\* signer is the parent's admin, the new record stores the parent's
\* address and the vault, its index is the parent's counter before the add
\* (0 for a fresh parent), the parent's counter is one greater than before,
\* and the record is Active with slot_added the current slot.
C6_FirstAdd ==
    \A e \in Edges, a \in Signers :
        ~TicketExists(accounts, e) =>
            LET r == OperatorAddVaultResult(e[1], e[2], a, TRUE) IN
            r.err = Ok =>
                LET before == OperatorRecord(accounts, e[1])
                    after == OperatorRecord(r.accounts, e[1])
                    ticket == TicketRecord(r.accounts, e)
                IN  /\ a = before.admin
                    /\ ticket.operator = OperatorAddr(e[1])
                    /\ ticket.vault = e[2]
                    /\ ticket.index = before.vault_count
                    /\ after.vault_count = before.vault_count + 1
                    /\ ticket.state = Active(slot)

\* A first add has just succeeded on the second edge of a parent: the
\* record has index 1 and the parent's counter is 2.
C6_Witness ==
    /\ last.op = "operator_add_vault" /\ last.res = Ok
    /\ last.pre = "Uninitialized"
    /\ \E e \in Edges :
           /\ ActivatedNow = {e}
           /\ TicketRecord(accounts, e).index = 1
           /\ OperatorRecord(accounts, e[1]).vault_count = 2

TicketStatesOk ==
    \A e \in Edges :
        TicketExists(accounts, e) =>
            LET st == TicketRecord(accounts, e).state IN
            /\ st.slot_added \in 0..slot
            /\ \/ st.slot_removed = NOT_REMOVED
               \/ st.slot_removed \in st.slot_added..slot

\* slot_added of a record is reassigned only by an add on a Removed record.
SlotAddedStep(e) ==
    LET old == TicketRecord(accounts, e).state
        new == TicketRecord(accounts', e).state
    IN  new.slot_added # old.slot_added =>
            /\ ~SlotToggle_is_active(old)
            /\ last'.op = "operator_add_vault" /\ last'.res = Ok
            /\ new = Active(slot)

C9_IndexNeverChanges ==
    [][\A e \in Edges :
          TicketExists(accounts, e) =>
              /\ TicketExists(accounts', e)
              /\ TicketRecord(accounts', e).index
                     = TicketRecord(accounts, e).index]_vars

\* The record with index 1 under its parent has just been added again
\* after a remove.
C9_Witness ==
    /\ last.op = "operator_add_vault" /\ last.res = Ok /\ last.pre = "Removed"
    /\ \E e \in Edges : /\ ActivatedNow = {e}
                        /\ TicketRecord(accounts, e).index = 1

\* C10 as claimed: every successful add raises the parent's counter by
\* exactly 1.
C10_EveryAddIncrements ==
    \A e \in Edges, a \in Signers :
        LET r == OperatorAddVaultResult(e[1], e[2], a, TRUE) IN
        r.err = Ok =>
            OperatorRecord(r.accounts, e[1]).vault_count
                = OperatorRecord(accounts, e[1]).vault_count + 1

\* What a successful add does to the parent's counter: one more when the
\* add creates the record, no change when it re-activates a Removed record.
AddCounts ==
    \A e \in Edges, a \in Signers :
        LET r == OperatorAddVaultResult(e[1], e[2], a, TRUE) IN
        r.err = Ok =>
            OperatorRecord(r.accounts, e[1]).vault_count
                = OperatorRecord(accounts, e[1]).vault_count
                      + (IF TicketExists(accounts, e) THEN 0 ELSE 1)

\* C10, amended: a successful add that creates the edge's record raises
\* the parent's counter by exactly 1, a successful add that re-activates a
\* Removed record leaves it as it was, and no step lowers a parent's
\* counter or deletes the parent.
C10_CounterMonotone ==
    /\ []AddCounts
    /\ [][\A b \in Bases :
            OperatorExists(accounts, b) =>
                /\ OperatorExists(accounts', b)
                /\ OperatorRecord(accounts', b).vault_count
                       >= OperatorRecord(accounts, b).vault_count]_vars

\* An edge has just been removed under a parent whose counter is 2.
C10_Witness ==
    /\ last.op = "operator_remove_vault" /\ last.res = Ok
    /\ \E b \in Bases : /\ OperatorExists(accounts, b)
                        /\ OperatorRecord(accounts, b).vault_count = 2

\* The addresses that hold an edge record.
TicketRegions(accts) ==
    {a \in Addresses \ {ConfigAddr} :
        /\ accts[a].data # <<>>
        /\ accts[a].data[1].account_type = "OperatorVaultTicket"}

\* C11: at most one edge record exists per ordered endpoint tuple, each
\* at the address of its edge and holding that edge's endpoints; and a
\* record that exists is there after every step, with the same endpoints:
\* no add, remove or re-add empties its region.
C11_TicketPersists ==
    /\ [](/\ \A a, b \in TicketRegions(accounts) :
                 (/\ accounts[a].data[1].operator = accounts[b].data[1].operator
                  /\ accounts[a].data[1].vault = accounts[b].data[1].vault)
                 => a = b
           /\ TicketRegions(accounts) \subseteq {TicketAddrs[e] : e \in Edges}
           /\ \A e \in Edges :
                 TicketExists(accounts, e) =>
                     /\ TicketRecord(accounts, e).operator = OperatorAddr(e[1])
                     /\ TicketRecord(accounts, e).vault = e[2])
    /\ [][\A e \in Edges :
             TicketExists(accounts, e) =>
                 /\ TicketExists(accounts', e)
                 /\ TicketRecord(accounts', e).operator =
                        TicketRecord(accounts, e).operator
                 /\ TicketRecord(accounts', e).vault =
                        TicketRecord(accounts, e).vault]_vars

\* Every edge has its record, and the last step re-added one that had
\* been added and removed before.
C11_Witness ==
    /\ \A e \in Edges : TicketExists(accounts, e)
    /\ last.op = "operator_add_vault"
    /\ last.res = Ok
    /\ last.pre = "Removed"

\* The program identities a caller may validate against.
ProgramIds == {ProgramId, VaultProgramId}

\* The conditions of a valid Config region, read off the raw region.
ConfigConditions(program_id, account, require_writable) ==
    /\ account.data # <<>>
    /\ account.owner = program_id
    /\ account.data[1] = AccountType_serialize("Config")
    /\ Len(account.data) >= Config_LEN
    /\ LET derived == create_program_address(
                          Config_seeds, account.data[Config_LEN], program_id)
       IN  derived.err = Ok /\ derived.key = account.key
    /\ require_writable => account.is_writable

\* C12: validating a Config region succeeds if and only if the region is
\* non-empty, its owner is the program, its stored type tag is Config,
\* the address re-derived from the seed "config" and the stored bump is
\* the region's address, and, when writable access is required, the
\* region is flagged writable.
C12_ConfigValidIff ==
    \A key \in ConfigKeys, program_id \in ProgramIds,
       is_writable \in BOOLEAN, expect_writable \in BOOLEAN :
        LET account == AccountInfo(accounts, key, FALSE, is_writable) IN
            (SanitizedConfig_sanitize(program_id, account,
                                      expect_writable).err = Ok)
            <=> ConfigConditions(program_id, account, expect_writable)

\* A validation requiring writable access has just succeeded on one
\* region while the other region holds a Config that fails it.
C12_Witness ==
    /\ last.op = "sanitize"
    /\ last.res = Ok
    /\ last.pre.expect_writable
    /\ handle # <<>>
    /\ \E key \in ConfigKeys \ {last.pre.key} :
           /\ accounts[key].data # <<>>
           /\ accounts[key].owner = ProgramId
           /\ SanitizedConfig_sanitize(
                  ProgramId, AccountInfo(accounts, key, FALSE, TRUE),
                  TRUE).err # Ok

\* Whether the address re-derived from the stored bump is the region's.
ConfigAddressMatches(program_id, account) ==
    /\ Len(account.data) >= Config_LEN
    /\ LET derived == create_program_address(
                          Config_seeds, account.data[Config_LEN], program_id)
       IN  derived.err = Ok /\ derived.key = account.key

\* C13 as stated: a failed validation of a Config region reports the kind
\* of the violated condition, the conditions taken in the order they are
\* listed: UninitializedAccount for an empty region, InvalidAccountOwner
\* for a region the program does not own, InvalidAccountData for a wrong
\* type tag, and InvalidAccountData whenever the address re-derived from
\* the stored bump differs from the region's address.
C13_SpecificErrorKind ==
    \A key \in ConfigKeys, program_id \in ProgramIds,
       is_writable \in BOOLEAN, expect_writable \in BOOLEAN :
        LET account == AccountInfo(accounts, key, FALSE, is_writable)
            err == SanitizedConfig_sanitize(program_id, account,
                                            expect_writable).err
        IN  IF account.data = <<>> THEN err = UninitializedAccount
            ELSE IF account.owner # program_id THEN err = InvalidAccountOwner
            ELSE IF account.data[1] # AccountType_serialize("Config")
            THEN err = InvalidAccountData
            ELSE IF ~ConfigAddressMatches(program_id, account)
            THEN err = InvalidAccountData
            ELSE err \in {Ok, InvalidAccountData}

\* C13, amended: the kind reported by a failed validation of a Config
\* region is that of the first check to fail, in this order: the
\* writable flag when writable access is required (InvalidAccountData),
\* an empty region (UninitializedAccount), a region the program does not
\* own (InvalidAccountOwner), a region that does not deserialize, being
\* cut short or tagged with no variant (BorshIoError), a type tag other
\* than Config (InvalidAccountData), a stored bump that derives no
\* address (InvalidSeeds), a derived address other than the region's
\* (InvalidAccountData).
C13_ErrorKinds ==
    \A key \in ConfigKeys, program_id \in ProgramIds,
       is_writable \in BOOLEAN, expect_writable \in BOOLEAN :
        LET account == AccountInfo(accounts, key, FALSE, is_writable)
            err == SanitizedConfig_sanitize(program_id, account,
                                            expect_writable).err
        IN  IF expect_writable /\ ~is_writable THEN err = InvalidAccountData
            ELSE IF account.data = <<>> THEN err = UninitializedAccount
            ELSE IF account.owner # program_id THEN err = InvalidAccountOwner
            ELSE IF \/ Len(account.data) < Config_LEN
                    \/ account.data[1] \notin 0..(Len(AccountTypes) - 1)
            THEN err = BorshIoError
            ELSE IF account.data[1] # AccountType_serialize("Config")
            THEN err = InvalidAccountData
            ELSE IF OnCurve(Config_seeds, account.data[Config_LEN], program_id)
            THEN err = InvalidSeeds
            ELSE IF [program |-> program_id, seeds |-> Config_seeds,
                     bump |-> account.data[Config_LEN]] # account.key
            THEN err = InvalidAccountData
            ELSE err = Ok

\* A validation has just failed with InvalidSeeds on a region whose
\* stored bump derives no address, while the other region is empty, so
\* that a validation requiring writable access of it, unflagged, fails
\* with InvalidAccountData.
C13_Witness ==
    /\ last.op = "sanitize"
    /\ last.res = InvalidSeeds
    /\ accounts[last.pre.key].owner = ProgramId
    /\ \E key \in ConfigKeys \ {last.pre.key} :
           /\ accounts[key].data = <<>>
           /\ SanitizedConfig_sanitize(
                  ProgramId, AccountInfo(accounts, key, FALSE, FALSE),
                  TRUE).err = InvalidAccountData

\* What a validation of the region at `key` returns.
ConfigAt(accts, key) ==
    Config_deserialize_checked(ProgramId, AccountInfo(accts, key, FALSE, FALSE))

\* C14: mutating the in-memory record of a validated Config handle leaves
\* every persisted region, and so what a validation of it returns, as it
\* was; a save() writes the handle's record into the handle's region and
\* nothing else, after which a validation of that region succeeds and
\* returns a record equal to the one saved.
C14_SaveCommits ==
    /\ [][last'.op = "increment_vaults" =>
             /\ accounts' = accounts
             /\ \A key \in ConfigKeys :
                    ConfigAt(accounts', key).err = ConfigAt(accounts, key).err]_vars
    /\ [][(last'.op = "save" /\ last'.res = Ok) =>
             /\ ConfigAt(accounts', handle[1].key).err = Ok
             /\ ConfigAt(accounts', handle[1].key).value = handle[1].config
             /\ accounts'[handle[1].key].owner = accounts[handle[1].key].owner
             /\ Len(accounts'[handle[1].key].data) =
                    Len(accounts[handle[1].key].data)
             /\ \A key \in ConfigKeys \ {handle[1].key} :
                    accounts'[key] = accounts[key]]_vars

\* A handle whose record was incremented once has just been saved: its
\* region now holds the count 1, and is longer than the record.
C14_Witness ==
    /\ last.op = "save"
    /\ last.res = Ok
    /\ handle # <<>>
    /\ handle[1].config.num_vaults = 1
    /\ ConfigAt(accounts, handle[1].key).err = Ok
    /\ ConfigAt(accounts, handle[1].key).value.num_vaults = 1
    /\ Len(accounts[handle[1].key].data) > Config_LEN

\* C15: initialize_config succeeds only when the canonical Config address
\* holds no record, and then creates there, and nowhere else, the Config
\* with the given admin, a vault count of 0 and the canonical bump; once a
\* Config exists every initialize_config fails and changes nothing, with
\* AlreadyExists when its admin signed; the Config's region is never
\* written again, and no other address holds a Config.
C15_InitializeConfigOnce ==
    /\ [](/\ \A admin \in Signers, signed \in BOOLEAN :
               LET r == InitializeConfigResult(admin, signed) IN
                   /\ r.err = Ok =>
                          /\ accounts[ConfigAddr].data = <<>>
                          /\ ConfigAt(r.accounts, ConfigAddr) =
                                 [err |-> Ok,
                                  value |-> Config_new(
                                      admin, VaultProgramId,
                                      Config_find_program_address(
                                          ProgramId).bump)]
                          /\ ConfigAt(r.accounts, ConfigAddr).value.num_vaults = 0
                          /\ \A a \in Addresses \ {ConfigAddr} :
                                 r.accounts[a] = accounts[a]
                   /\ accounts[ConfigAddr].data # <<>> =>
                          /\ r.err # Ok
                          /\ signed => r.err = AlreadyExists
                          /\ r.accounts = accounts
          /\ \A a \in Addresses \ {ConfigAddr} :
                 accounts[a].data # <<>> =>
                     accounts[a].data[1].account_type # "Config")
    /\ [][accounts[ConfigAddr].data # <<>> =>
              accounts'[ConfigAddr] = accounts[ConfigAddr]]_vars

\* A second initialize_config has just failed with AlreadyExists, the
\* Config being that of the first; a different admin's would fail too.
C15_Witness ==
    /\ last.op = "initialize_config"
    /\ last.res = AlreadyExists
    /\ ConfigAt(accounts, ConfigAddr).err = Ok
    /\ ConfigAt(accounts, ConfigAddr).value.admin = Wallet("alice")
    /\ InitializeConfigResult(Wallet("bob"), TRUE).err = AlreadyExists

C17_IncrementVaults ==
    /\ [][last'.op = "increment_vaults" =>
             IF handle[1].config.num_vaults = U64_MAX
             THEN /\ last'.res = CounterOverflow
                  /\ handle' = handle
             ELSE /\ last'.res = Ok
                  /\ last'.pre = handle[1].config.num_vaults + 1
                  /\ handle'[1].config =
                         [handle[1].config EXCEPT
                              !.num_vaults = handle[1].config.num_vaults + 1]
                  /\ handle'[1].key = handle[1].key]_vars
    /\ [][\A key \in ConfigKeys :
             ConfigAt(accounts, key).err = Ok =>
                 /\ ConfigAt(accounts', key).err = Ok
                 /\ ConfigAt(accounts', key).value.num_vaults >=
                        ConfigAt(accounts, key).value.num_vaults]_vars

\* An increment_vaults has just reported overflow on a record whose
\* count, saved after the increment before it, is the largest value.
C17_Witness ==
    /\ last.op = "increment_vaults"
    /\ last.res = CounterOverflow
    /\ handle[1].config.num_vaults = U64_MAX
    /\ ConfigAt(accounts, handle[1].key).err = Ok
    /\ ConfigAt(accounts, handle[1].key).value.num_vaults = U64_MAX

\* C18: an edge record is never stuck: while it is Active, a remove signed
\* by the parent's admin succeeds at the current slot and leaves it
\* Removed at that slot; while it is Removed, an add signed by the
\* parent's admin succeeds and leaves it Active from the current slot.
C18_NoTerminalState ==
    \A e \in Edges :
        TicketExists(accounts, e) =>
            LET admin == OperatorRecord(accounts, e[1]).admin
                state == TicketRecord(accounts, e).state
                remove == OperatorRemoveVaultResult(e[1], e[2], admin, TRUE)
                add == OperatorAddVaultResult(e[1], e[2], admin, TRUE)
            IN  IF SlotToggle_is_active(state)
                THEN /\ remove.err = Ok
                     /\ TicketRecord(remove.accounts, e).state =
                            Removed(state.slot_added, slot)
                ELSE /\ add.err = Ok
                     /\ TicketRecord(add.accounts, e).state = Active(slot)

\* An edge has just been removed in the very slot it was last activated
\* in, after the clock had advanced, and another edge is Active.
C18_Witness ==
    /\ last.op = "operator_remove_vault"
    /\ last.res = Ok
    /\ slot > 0
    /\ \E e \in Edges : /\ TicketExists(accounts, e)
                        /\ TicketRecord(accounts, e).state = Removed(slot, slot)
    /\ \E e \in Edges : /\ TicketExists(accounts, e)
                        /\ SlotToggle_is_active(TicketRecord(accounts, e).state)

\* The record a non-empty region holds.
RecordAt(accts, a) ==
    IF Len(accts[a].data) >= Config_LEN
    THEN Config_deserialize(accts[a].data).value
    ELSE accts[a].data[1]

\* Every derivation a caller can ask for: of the Config, of each base's
\* Operator and of each edge's record, under each program identity.
Derivations ==
    [config |-> [p \in ProgramIds |-> Config_find_program_address(p)],
     operator |-> [p \in ProgramIds |->
                      [b \in Bases |-> Operator_find_program_address(p, b)]],
     ticket |-> [p \in ProgramIds |->
                    [e \in Edges |->
                        OperatorVaultTicket_find_program_address(
                            p, Operator_find_program_address(p, e[1]).key,
                            e[2])]]]

C20_SystemProgramByKey ==
    /\ last.op = "system_program_sanitize" =>
           last.res = IF last.pre.key = SystemProgramId
                      THEN Ok ELSE InvalidAccountData
    /\ \A key \in SystemProgramKeys, a \in ConfigKeys, lamports \in 0..1,
          is_signer \in BOOLEAN, is_writable \in BOOLEAN :
           SanitizedSystemProgram_sanitize(
               AccountInfo_new(key, is_signer, is_writable, lamports,
                               accounts[a])).err
               = IF key = SystemProgramId THEN Ok ELSE InvalidAccountData

\* An account bearing the system program's key has just passed while
\* owned by the restaking program, holding data, signing and writable;
\* an account owned by the system program under another key fails.
C20_Witness ==
    /\ last.op = "system_program_sanitize"
    /\ last.res = Ok
    /\ last.pre.owner = ProgramId
    /\ last.pre.has_data
    /\ last.pre.is_signer
    /\ last.pre.is_writable
    /\ \E a \in ConfigKeys :
           /\ accounts[a].owner = SystemProgramId
           /\ SanitizedSystemProgram_sanitize(
                  AccountInfo_new(a, FALSE, FALSE, 0, accounts[a])).err =
                  InvalidAccountData

\* The two edge operations as the host commits them: on the snapshot
\* `accts`, at slot `s`, for the edge e.
AddVault(accts, e, admin, s) ==
    process_operator_add_vault(
        ProgramId, accts,
        OperatorAddVaultAccounts(accts, e[1], e[2], admin, TRUE), s)

RemoveVault(accts, e, admin, signed, s) ==
    process_operator_remove_vault(
        ProgramId, accts,
        OperatorRemoveVaultAccounts(accts, e[1], e[2], admin, signed), s)

\* C21: of two adds of the same edge by the parent's admin, the edge's
\* record absent or Removed, the first the host commits succeeds and the
\* second, run on the snapshot the first left, at the same or a later
\* slot, fails with InvalidStateTransition and changes nothing; two first
\* adds of different edges of one parent both succeed in either order,
\* the first committed taking the parent's count n as index and the
\* second, which reads the counter the first wrote, n + 1.
C21_ConcurrentAdds ==
    /\ \A e \in Edges, s \in slot..MaxSlot :
           (OperatorExists(accounts, e[1]) /\
            TicketStatus(accounts, e[1], e[2]) # "Active") =>
               LET admin == OperatorRecord(accounts, e[1]).admin
                   first == AddVault(accounts, e, admin, slot)
                   second == AddVault(first.accounts, e, admin, s)
               IN  /\ first.err = Ok
                   /\ second.err = InvalidStateTransition
                   /\ second.accounts = first.accounts
    /\ \A e \in Edges, f \in Edges :
           (/\ e # f
            /\ e[1] = f[1]
            /\ OperatorExists(accounts, e[1])
            /\ ~TicketExists(accounts, e)
            /\ ~TicketExists(accounts, f)) =>
               LET admin == OperatorRecord(accounts, e[1]).admin
                   n == OperatorRecord(accounts, e[1]).vault_count
                   first == AddVault(accounts, e, admin, slot)
                   second == AddVault(first.accounts, f, admin, slot)
               IN  /\ first.err = Ok
                   /\ second.err = Ok
                   /\ TicketRecord(second.accounts, e).index = n
                   /\ TicketRecord(second.accounts, f).index = n + 1
                   /\ OperatorRecord(first.accounts, e[1]).vault_count = n + 1
                   /\ OperatorRecord(second.accounts, e[1]).vault_count = n + 2

\* Two edges of one parent were first added in the current slot, the
\* second just now, with indices 0 and 1, while another parent's edge is
\* Removed and so open to two competing re-adds.
C21_Witness ==
    /\ last.op = "operator_add_vault"
    /\ last.res = Ok
    /\ last.pre = "Uninitialized"
    /\ \E e \in Edges, f \in Edges :
           /\ e # f
           /\ e[1] = f[1]
           /\ TicketExists(accounts, e)
           /\ TicketExists(accounts, f)
           /\ TicketRecord(accounts, e).state = Active(slot)
           /\ TicketRecord(accounts, f).state = Active(slot)
           /\ TicketRecord(accounts, e).index = 0
           /\ TicketRecord(accounts, f).index = 1
    /\ \E g \in Edges : TicketStatus(accounts, g[1], g[2]) = "Removed"

\* The signed edge requests a caller can make for the edge e: an add or
\* a remove, naming either wallet as admin.
EdgeRequests(e) ==
    {[op |-> op, edge |-> e, admin |-> admin, signed |-> TRUE] :
        op \in {"operator_add_vault", "operator_remove_vault"},
        admin \in Signers}

\* The processor call a request stands for, on the snapshot `accts` at
\* slot `s`.
EdgeOp(accts, request, s) ==
    IF request.op = "operator_add_vault"
    THEN AddVault(accts, request.edge, request.admin, s)
    ELSE RemoveVault(accts, request.edge, request.admin, request.signed, s)

\* An arbitrary order of the parents, to take each pair of them once.
BaseRank ==
    CHOOSE r \in [Bases -> 1..Cardinality(Bases)] :
        \A b \in Bases, c \in Bases : b # c => r[b] # r[c]

\* C22: two edge requests on edges of different parents, which share no
\* writable record, commute: committed at the current slot in either
\* order, each returns the same result and the storage ends the same.
C22_DisjointCommute ==
    \A e \in Edges, f \in Edges :
        BaseRank[e[1]] < BaseRank[f[1]] =>
            LET first == [r \in EdgeRequests(e) \cup EdgeRequests(f) |->
                             EdgeOp(accounts, r, slot)]
            IN  \A x \in EdgeRequests(e), y \in EdgeRequests(f) :
                    LET y2 == EdgeOp(first[x].accounts, y, slot)
                        x2 == EdgeOp(first[y].accounts, x, slot)
                    IN  /\ first[x].err = x2.err
                        /\ first[y].err = y2.err
                        /\ y2.accounts = x2.accounts

\* Edges of both parents have been added and removed in the current
\* slot, the last just now, so that requests on them, taken in either
\* order, both change the storage.
C22_Witness ==
    /\ last.op = "operator_remove_vault"
    /\ last.res = Ok
    /\ \E e \in Edges, f \in Edges :
           /\ e[1] # f[1]
           /\ TicketExists(accounts, e)
           /\ TicketExists(accounts, f)
           /\ TicketRecord(accounts, e).state = Removed(slot, slot)
           /\ TicketRecord(accounts, f).state = Removed(slot, slot)
    /\ \E g \in Edges : ~TicketExists(accounts, g)

\* C23: a successful remove writes the record of the edge it names and
\* nothing else: the Config, every parent's record and every other
\* edge's record are the same before and after, both for every remove
\* the parent's admin can make in a state and for every step taken.
C23_RemoveWritesOnlyEdge ==
    /\ [](\A e \in Edges, admin \in Signers :
             LET r == RemoveVault(accounts, e, admin, TRUE, slot) IN
                 r.err = Ok =>
                     /\ r.accounts[TicketAddrs[e]] # accounts[TicketAddrs[e]]
                     /\ \A a \in Addresses \ {TicketAddrs[e]} :
                            r.accounts[a] = accounts[a])
    /\ [][(last'.op = "operator_remove_vault" /\ last'.res = Ok) =>
             /\ accounts'[ConfigAddr] = accounts[ConfigAddr]
             /\ \A b \in Bases :
                    accounts'[OperatorAddr(b)] = accounts[OperatorAddr(b)]
             /\ Cardinality({e \in Edges :
                                accounts'[TicketAddrs[e]] #
                                    accounts[TicketAddrs[e]]}) = 1]_vars

\* A remove has just succeeded on one of two edges of a parent whose
\* count is 2, the other edge still Active, and another parent has an
\* edge too.
C23_Witness ==
    /\ last.op = "operator_remove_vault"
    /\ last.res = Ok
    /\ last.pre = "Active"
    /\ \E e \in Edges, f \in Edges :
           /\ e # f
           /\ e[1] = f[1]
           /\ TicketExists(accounts, e)
           /\ TicketExists(accounts, f)
           /\ OperatorRecord(accounts, e[1]).vault_count = 2
           /\ ~SlotToggle_is_active(TicketRecord(accounts, e).state)
           /\ SlotToggle_is_active(TicketRecord(accounts, f).state)
    /\ \A g \in Edges : TicketExists(accounts, g)

\* The result the order of the remove processor's checks gives a request:
\* the records (Config, parent, edge record), then the admin's
\* signature, then the admin's identity, then the state transition.
RemoveFirstFailure(e, admin, signed) ==
    IF accounts[ConfigAddr].data = <<>> THEN UninitializedAccount
    ELSE IF ~OperatorExists(accounts, e[1]) THEN UninitializedAccount
    ELSE IF ~TicketExists(accounts, e) THEN UninitializedAccount
    ELSE IF ~signed THEN MissingRequiredSignature
    ELSE IF admin # OperatorRecord(accounts, e[1]).admin
    THEN AuthorizationFailure
    ELSE IF ~SlotToggle_is_active(TicketRecord(accounts, e).state)
    THEN InvalidStateTransition
    ELSE Ok

\* C24: a remove returns the error of the first check to fail, the checks
\* taken in the order record validation, admin signature, admin identity,
\* state transition; so a non-admin's remove of a never-created edge fails
\* with UninitializedAccount, and a non-admin's signed remove of an Active
\* or a Removed edge fails with AuthorizationFailure.
C24_RemoveCheckOrder ==
    \A e \in Edges, admin \in Signers, signed \in BOOLEAN :
        LET r == RemoveVault(accounts, e, admin, signed, slot) IN
            /\ r.err = RemoveFirstFailure(e, admin, signed)
            /\ (OperatorExists(accounts, e[1]) /\
                admin # OperatorRecord(accounts, e[1]).admin) =>
                   r.err = CASE TicketStatus(accounts, e[1], e[2]) =
                                    "Uninitialized" -> UninitializedAccount
                             [] OTHER ->
                                    IF signed THEN AuthorizationFailure
                                    ELSE MissingRequiredSignature

\* A remove of a Removed edge has just failed with AuthorizationFailure,
\* not InvalidStateTransition, while another edge of an existing parent
\* was never created.
C24_Witness ==
    /\ last.op = "operator_remove_vault"
    /\ last.res = AuthorizationFailure
    /\ last.pre = "Removed"
    /\ \E e \in Edges : /\ OperatorExists(accounts, e[1])
                        /\ ~TicketExists(accounts, e)

\* C25: a remove that names the parent's stored admin as its admin
\* account, without that account having signed, fails and leaves every
\* record as it was, whatever the state of the edge; when the edge's
\* record exists the failure is MissingRequiredSignature.
C25_UnsignedAdminFails ==
    \A e \in Edges :
        OperatorExists(accounts, e[1]) =>
            LET admin == OperatorRecord(accounts, e[1]).admin
                r == RemoveVault(accounts, e, admin, FALSE, slot)
            IN  /\ r.err # Ok
                /\ r.accounts = accounts
                /\ TicketExists(accounts, e) =>
                       r.err = MissingRequiredSignature

\* A remove of an Active edge has just failed for want of a signature,
\* the edge is still Active, and the same remove signed by the admin
\* would succeed.
C25_Witness ==
    /\ last.op = "operator_remove_vault"
    /\ last.res = MissingRequiredSignature
    /\ last.pre = "Active"
    /\ \E e \in Edges :
           /\ TicketExists(accounts, e)
           /\ SlotToggle_is_active(TicketRecord(accounts, e).state)
           /\ RemoveVault(accounts, e, OperatorRecord(accounts, e[1]).admin,
                          FALSE, slot).err = MissingRequiredSignature
           /\ RemoveVault(accounts, e, OperatorRecord(accounts, e[1]).admin,
                          TRUE, slot).err = Ok

\* Addresses a Config record can be found stored at: those its seed
\* derives under each program identity and bump, each Operator's, the
\* system program's and a wallet's.
StorageKeys ==
    {create_program_address(Config_seeds, b, p).key :
        b \in {254, 255}, p \in ProgramIds}
    \cup {OperatorAddr(b) : b \in Bases}
    \cup SystemProgramKeys

\* C26: a Config built with the bump that find_program_address returns,
\* stored at the address the same call returns in a region the program
\* owns, passes deserialize_checked, which returns that record; stored at
\* any other address the same record is rejected, with
\* InvalidAccountData.  The same holds of every region of the storage
\* that holds a Config with that bump.
C26_ConfigRoundTrip ==
    /\ \A program_id \in ProgramIds, admin \in Signers :
           LET pda == Config_find_program_address(program_id)
               config == Config_new(admin, VaultProgramId, pda.bump)
               stored(key) ==
                   AccountInfo_new(
                       key, FALSE, FALSE, 0,
                       [owner |-> program_id,
                        data |-> Config_serialize(config)])
           IN  /\ Config_deserialize_checked(program_id, stored(pda.key)) =
                      [err |-> Ok, value |-> config]
               /\ \A key \in StorageKeys \ {pda.key} :
                      Config_deserialize_checked(program_id, stored(key)).err
                          = InvalidAccountData
    /\ \A a \in ConfigKeys :
           (/\ accounts[a].owner = ProgramId
            /\ Config_deserialize(accounts[a].data).err = Ok
            /\ Config_deserialize(accounts[a].data).value.account_type =
                   "Config"
            /\ Config_deserialize(accounts[a].data).value.bump =
                   Config_find_program_address(ProgramId).bump) =>
               ConfigAt(accounts, a).err =
                   IF a = ConfigAddr THEN Ok ELSE InvalidAccountData

\* The region at the derived address has just passed validation, and the
\* other region, which holds the very same bytes and is owned by the
\* program too, is rejected.
C26_Witness ==
    /\ last.op = "sanitize"
    /\ last.res = Ok
    /\ last.pre.key = ConfigAddr
    /\ handle[1].config.bump = Config_find_program_address(ProgramId).bump
    /\ accounts[AltConfigAddr] = accounts[ConfigAddr]
    /\ ConfigAt(accounts, AltConfigAddr).err = InvalidAccountData

====
